---- MODULE Spec2Model ----
(***************************************************************************)
(* Model of src/app.py: a Flask service that resolves the caller name of   *)
(* a phone number through the Twilio Lookup API behind a SQLite cache      *)
(* with a TTL, and compares it with the name a directory claims.           *)
(*                                                                         *)
(* Time is counted in ticks of 1/TicksPerSec second: time.time() is a      *)
(* float, while cache_name stores int(time.time()), whole seconds.         *)
(***************************************************************************)
EXTENDS Integers, Sequences, FiniteSets, TLC

\* ------------------------------------------------------------- bounds

\* Clock resolution: ticks per second.
TicksPerSec == 2
\* The clock runs from tick 0 to tick MaxTicks.
MaxTicks == 3
\* A remote users list holds at most MaxRecords records.
MaxRecords == 2
\* The process is restarted at most MaxRestarts times.
MaxRestarts == 1

\* ---------------------------------------------------------- constants

\* src/app.py:38, the TTL in seconds (the environment may override it).
CACHE_TTL_SECONDS == 1

\* Python's None.
None == "<None>"

\* Mutant of Truthy: only None is falsy (`if x is not None:`).
Truthy_NotNone(x) == x # None

\* Truthiness of an optional string: `if x:` in Python.
Truthy(x) == x # None /\ x # ""

\* The phone numbers requests are made for; the last is in no directory.
Phones == {"+15551234567", "+15557654321", "+15550000000"}

\* Names the lookup provider may return.
ProviderNames == {"John Doe", "john doe"}

\* ---------------------------------------------------------- variables

VARIABLES
  clock,                    \* time.time(), in ticks
  lookup_cache,             \* the rows of table lookup_cache
  stored_caller_name,       \* the global of that name
  solidarity_tech_api_key,  \* whether the environment sets the API key
  pc,                       \* per thread: where its request handler stands
  loc,                      \* per thread: the handler's request and locals
  unit,                     \* the last direct call of the cache's functions
  boot,                     \* the start of the process: the restarts before it, and
                            \* the rows the run a restart ended left in lookup_cache.db
  put_at,                   \* history of the direct calls: per phone number, the
                            \* tick at which cache_name wrote its row (-1: no row)
  cur_fetch,                \* history: per thread, its current fetch
  last_fetch,               \* history: the last finished fetch_caller_name_with_cache
  last_resolved             \* history: the last non-empty name a fetch returned

vars == <<clock, lookup_cache, stored_caller_name, solidarity_tech_api_key,
          pc, loc, unit, put_at, boot, cur_fetch, last_fetch, last_resolved>>

\* The history variables, kept by Observe and ObserveResolved.
hist == <<cur_fetch, last_fetch, last_resolved>>

\* The threads of the server (Flask's development server is threaded).
Threads == {"t1", "t2"}

\* ------------------------------------------------------------ the cache

\* Mutant of IsFresh: the comparison turned round.
IsFresh_Reversed(ts, now) ==
  now - ts * TicksPerSec > CACHE_TTL_SECONDS * TicksPerSec

\* time.time() - ts < CACHE_TTL_SECONDS, ts in whole seconds, now in ticks.
IsFresh(ts, now) == now - ts * TicksPerSec < CACHE_TTL_SECONDS * TicksPerSec

\* Mutant of IntTime: round(time.time()) to the next second.
IntTime_RoundUp(now) == (now + TicksPerSec - 1) \div TicksPerSec

\* int(time.time())
IntTime(now) == now \div TicksPerSec

\* fetchone() when the SELECT matched nothing.
NoRow == [phone_number |-> None, name |-> None, timestamp |-> -1]

\* SELECT name, timestamp FROM lookup_cache WHERE phone_number = ?
SelectRows(table, phone_number) ==
  {r \in table : r.phone_number = phone_number}

\* cursor.fetchone(): a matching row, or None.
FetchOne(table, phone_number) ==
  IF SelectRows(table, phone_number) = {}
  THEN {NoRow}
  ELSE SelectRows(table, phone_number)

\* Mutant of DeleteRows: the DELETE without its WHERE clause.
DeleteRows_All(table, phone_number) == {}

\* DELETE FROM lookup_cache WHERE phone_number = ?
DeleteRows(table, phone_number) ==
  {r \in table : r.phone_number # phone_number}

\* Mutant of InsertOrReplace: a plain INSERT on a table without the key.
InsertOrReplace_NoKey(table, phone_number, name, ts) ==
  table \cup {[phone_number |-> phone_number, name |-> name, timestamp |-> ts]}

\* INSERT OR REPLACE INTO lookup_cache ... on PRIMARY KEY phone_number.
InsertOrReplace(table, phone_number, name, ts) ==
  {r \in table : r.phone_number # phone_number}
    \cup {[phone_number |-> phone_number, name |-> name, timestamp |-> ts]}

\* cache_name(phone_number, name) at time now: the table afterwards.
cache_name(table, phone_number, name, now) ==
  InsertOrReplace(table, phone_number, name, IntTime(now))

\* Mutant of get_cached_name: an expired entry is left in the table.
get_cached_name_Lazy(table, phone_number, now) ==
  {IF row # NoRow /\ IsFresh(row.timestamp, now)
   THEN [ret |-> row.name, table |-> table]
   ELSE [ret |-> None, table |-> table]
   : row \in FetchOne(table, phone_number)}

\* get_cached_name(phone_number) at time now, run without interruption:
\* the possible pairs of returned name and table afterwards.
get_cached_name(table, phone_number, now) ==
  {IF row = NoRow
   THEN [ret |-> None, table |-> table]
   ELSE IF IsFresh(row.timestamp, now)
        THEN [ret |-> row.name, table |-> table]
        ELSE [ret |-> None, table |-> DeleteRows(table, phone_number)]
   : row \in FetchOne(table, phone_number)}

\* -------------------------------------------------------- the directory

\* local_mock_database, in insertion order; get_users returns the same list.
local_mock_database ==
  << [phone_number |-> "+15551234567", name |-> "John Doe"],
     [phone_number |-> "+15557654321", name |-> "Jane Smith"] >>

\* The records a remote users list is made of.
RemoteRecords ==
  { [phone_number |-> "+15551234567", name |-> "John Doe"],
    [phone_number |-> "+15557654321", name |-> "Jane Smith"],
    [phone_number |-> "+15557654321", name |-> ""] }

RECURSIVE SeqsUpTo(_, _)
SeqsUpTo(S, n) ==
  IF n = 0 THEN {<<>>}
  ELSE SeqsUpTo(S, n - 1)
         \cup {Append(s, x) : s \in {q \in SeqsUpTo(S, n - 1) : Len(q) = n - 1}, x \in S}

\* The lists response.json() may hold.
RemoteLists == SeqsUpTo(RemoteRecords, MaxRecords)

HasKey(d, k) == \E j \in 1..Len(d) : d[j].phone_number = k

\* d[k] = v on a Python dict: a new key goes last, an old key keeps its place.
DictPut(d, k, v) ==
  IF HasKey(d, k)
  THEN [j \in 1..Len(d) |->
          IF d[j].phone_number = k THEN [phone_number |-> k, name |-> v] ELSE d[j]]
  ELSE Append(d, [phone_number |-> k, name |-> v])

\* {user["phone_number"]: user["name"] for user in users}
RECURSIVE DictOf(_)
DictOf(users) ==
  IF users = <<>> THEN <<>>
  ELSE DictPut(DictOf(SubSeq(users, 1, Len(users) - 1)),
               users[Len(users)].phone_number, users[Len(users)].name)

\* Mutant of DictGet: a default name for a number that is not a key.
DictGet_Default(d, k) ==
  IF HasKey(d, k)
  THEN d[CHOOSE j \in 1..Len(d) : d[j].phone_number = k].name
  ELSE "Unknown"

\* user_data.get(phone_number)
DictGet(d, k) ==
  IF HasKey(d, k)
  THEN d[CHOOSE j \in 1..Len(d) : d[j].phone_number = k].name
  ELSE None

\* ------------------------------------------------------------ responses

\* jsonify({key: text}), code; a list response carries results.
Response(code, key, text, results) ==
  [code |-> code, key |-> key, text |-> text, results |-> results]

NoResponse == Response(0, None, None, <<>>)

NameNotFound == "Name not found or not available"

\* str.lower() on the names of the model.
Lower(name) == IF name = "John Doe" THEN "john doe" ELSE name

\* Mutant of NamesMatch: the names compared without regard to case.
NamesMatch_IgnoreCase(caller_name, claimed_name) ==
  Truthy(caller_name) /\ Lower(caller_name) = Lower(claimed_name)

\* caller_name and caller_name == claimed_name
NamesMatch(caller_name, claimed_name) ==
  Truthy(caller_name) /\ caller_name = claimed_name

VerifyStatus(caller_name, claimed_name) ==
  IF NamesMatch(caller_name, claimed_name)
  THEN "Identity Verified"
  ELSE "Identity Invalid"

\* An entry of results in verify_all_identities.
ResultOk(phone_number, claimed_name, caller_name) ==
  [phone_number |-> phone_number, claimed_name |-> claimed_name,
   twilio_name |-> IF Truthy(caller_name) THEN caller_name ELSE NameNotFound,
   status |-> VerifyStatus(caller_name, claimed_name), error |-> None]

ResultError(phone_number, claimed_name, error) ==
  [phone_number |-> phone_number, claimed_name |-> claimed_name,
   twilio_name |-> None, status |-> "Twilio Lookup Error", error |-> error]

\* str(e) of the exceptions the provider call raises.
ProviderErrors == {"Unable to fetch record"}

\* str(e) of sqlite3.OperationalError.
CacheError == "disk I/O error"

\* -------------------------------------------------------- initial state

\* History of a fetch: the tick it began at, the tick of its freshness check,
\* the timestamp of the row it returned or stored, its provider calls.
NewFetch(now) == [start |-> now, check_at |-> -1, ts |-> -1, calls |-> 0]

NoFetch ==
  [phone_number |-> None, ret |-> None, failed |-> None,
   start |-> -1, check_at |-> -1, ts |-> -1, calls |-> -1]

\* A thread's locals when it serves no request.
IdleLoc ==
  [kind |-> "none", phone_number |-> None, directory |-> "none",
   users |-> <<>>, user_data |-> <<>>,
   i |-> 0, claimed_name |-> None, results |-> <<>>,
   fp |-> None, row |-> NoRow, caller_name |-> None, error |-> None,
   failed |-> None, outcomes |-> <<>>,
   response |-> NoResponse]

NoCall == [op |-> "none", phone_number |-> None, name |-> None,
           ret |-> None, before |-> {}, written |-> -1, at |-> -1]

\* lookup_cache.db as the process starts: empty, or holding a row an earlier
\* run of the service wrote CACHE_TTL_SECONDS before.
InitialTables ==
  { {},
    {[phone_number |-> "+15551234567", name |-> "John Doe",
      timestamp |-> 0 - CACHE_TTL_SECONDS]} }

Init ==
  /\ clock = 0
  /\ lookup_cache \in InitialTables
  /\ stored_caller_name = None
  /\ solidarity_tech_api_key \in BOOLEAN
  /\ pc = [t \in Threads |-> "idle"]
  /\ loc = [t \in Threads |-> IdleLoc]
  /\ unit = NoCall
  /\ put_at = [p \in Phones |-> -1]
  /\ boot = [n |-> 0, table |-> {}]
  /\ cur_fetch = [t \in Threads |-> NewFetch(-1)]
  /\ last_fetch = NoFetch
  /\ last_resolved = None

\* Time passes.
Tick ==
  /\ clock < MaxTicks
  /\ clock' = clock + 1
  /\ UNCHANGED <<lookup_cache, stored_caller_name, solidarity_tech_api_key,
                 pc, loc, unit, put_at, boot>>

\* ------------------------------------------- the cache, called directly

\* A direct call get_cached_name(p).
CallGet ==
  \E p \in Phones : \E res \in get_cached_name(lookup_cache, p, clock) :
    /\ lookup_cache' = res.table
    /\ unit' = [op |-> "get", phone_number |-> p, name |-> None,
                ret |-> res.ret, before |-> lookup_cache,
                written |-> put_at[p], at |-> clock]
    /\ put_at' = [put_at EXCEPT
                    ![p] = IF SelectRows(res.table, p) = {} THEN -1 ELSE @]
    /\ UNCHANGED <<clock, stored_caller_name, solidarity_tech_api_key,
                   pc, loc, boot>>

\* A direct call cache_name(p, name).
CallPut ==
  \E p \in Phones : \E name \in ProviderNames :
    /\ lookup_cache' = cache_name(lookup_cache, p, name, clock)
    /\ unit' = [op |-> "put", phone_number |-> p, name |-> name,
                ret |-> None, before |-> lookup_cache,
                written |-> put_at[p], at |-> clock]
    /\ put_at' = [put_at EXCEPT ![p] = clock]
    /\ UNCHANGED <<clock, stored_caller_name, solidarity_tech_api_key,
                   pc, loc, boot>>

NextCache == Tick \/ CallGet \/ CallPut

\* ------------------------------------------------- the request handlers

\* request.args.get("phone_number"): a number, an empty string or nothing.
Params == Phones \cup {"", None}

\* A handler's locals as its request arrives.
NewRequest(kind, p) ==
  [IdleLoc EXCEPT !.kind = kind, !.phone_number = p]

Respond(l, r) == [l EXCEPT !.response = r]

\* The call fetch_caller_name_with_cache(p) begins.
BeginFetch(l, p) ==
  [l EXCEPT !.fp = p, !.row = NoRow, !.caller_name = None,
            !.error = None, !.failed = None]

MissingParam == Response(400, "error", "phone_number parameter is required", <<>>)

\* The outcomes of loading user_data (lines 164-176 and 204-216): the static
\* table without an API key; with one, the list the GET returns, or its failure.
LoadDirectory ==
  IF solidarity_tech_api_key
  THEN {[ok |-> TRUE, users |-> u, user_data |-> DictOf(u)] : u \in RemoteLists}
         \cup {[ok |-> FALSE, users |-> <<>>, user_data |-> <<>>]}
  ELSE {[ok |-> TRUE, users |-> local_mock_database, user_data |-> local_mock_database]}

DirectoryDown ==
  Response(500, "error", "Could not connect to Solidarity Tech API", <<>>)

\* lookup_phone_number up to the call of fetch_caller_name_with_cache.
LookupStart(t) ==
  /\ pc[t] = "idle"
  /\ \E p \in Params :
       IF ~Truthy(p)
       THEN /\ loc' = [loc EXCEPT ![t] = Respond(NewRequest("lookup", p), MissingParam)]
            /\ pc' = [pc EXCEPT ![t] = "done"]
       ELSE /\ loc' = [loc EXCEPT ![t] = BeginFetch(NewRequest("lookup", p), p)]
            /\ pc' = [pc EXCEPT ![t] = "select"]
  /\ UNCHANGED <<clock, lookup_cache, stored_caller_name, solidarity_tech_api_key,
                 unit, put_at, boot>>

\* verify_identity up to the call of fetch_caller_name_with_cache.
VerifyStart(t) ==
  /\ pc[t] = "idle"
  /\ \E p \in Params : \E d \in LoadDirectory :
       LET l == NewRequest("verify_identity", p)
           claimed_name == DictGet(d.user_data, p)
       IN  IF ~Truthy(p)
           THEN /\ loc' = [loc EXCEPT ![t] = Respond(l, MissingParam)]
                /\ pc' = [pc EXCEPT ![t] = "done"]
           ELSE IF ~d.ok
           THEN /\ loc' = [loc EXCEPT ![t] =
                     Respond([l EXCEPT !.directory = "down"], DirectoryDown)]
                /\ pc' = [pc EXCEPT ![t] = "done"]
           ELSE IF ~Truthy(claimed_name)
           THEN /\ loc' = [loc EXCEPT ![t] =
                     Respond([l EXCEPT !.directory = "ok", !.users = d.users,
                                       !.user_data = d.user_data,
                                       !.claimed_name = claimed_name],
                             Response(404, "error", "Phone number not found in database", <<>>))]
                /\ pc' = [pc EXCEPT ![t] = "done"]
           ELSE /\ loc' = [loc EXCEPT ![t] =
                     BeginFetch([l EXCEPT !.directory = "ok", !.users = d.users,
                                          !.user_data = d.user_data,
                                          !.claimed_name = claimed_name], p)]
                /\ pc' = [pc EXCEPT ![t] = "select"]
  /\ UNCHANGED <<clock, lookup_cache, stored_caller_name, solidarity_tech_api_key,
                 unit, put_at, boot>>

\* verify_all_identities up to the first call of fetch_caller_name_with_cache.
VerifyAllStart(t) ==
  /\ pc[t] = "idle"
  /\ \E d \in LoadDirectory :
       LET l == NewRequest("verify_all_identities", None)
       IN  IF ~d.ok
           THEN /\ loc' = [loc EXCEPT ![t] =
                     Respond([l EXCEPT !.directory = "down"], DirectoryDown)]
                /\ pc' = [pc EXCEPT ![t] = "done"]
           ELSE IF d.user_data = <<>>
           THEN /\ loc' = [loc EXCEPT ![t] =
                     Respond([l EXCEPT !.directory = "ok", !.users = d.users],
                             Response(200, "results", None, <<>>))]
                /\ pc' = [pc EXCEPT ![t] = "done"]
           ELSE /\ loc' = [loc EXCEPT ![t] =
                     BeginFetch([l EXCEPT !.directory = "ok", !.users = d.users,
                                          !.user_data = d.user_data, !.i = 1,
                                          !.claimed_name = d.user_data[1].name],
                                d.user_data[1].phone_number)]
                /\ pc' = [pc EXCEPT ![t] = "select"]
  /\ UNCHANGED <<clock, lookup_cache, stored_caller_name, solidarity_tech_api_key,
                 unit, put_at, boot>>

\* get_caller_name.
GetCallerName(t) ==
  /\ pc[t] = "idle"
  /\ loc' = [loc EXCEPT ![t] =
       Respond(NewRequest("get_caller_name", None),
               IF Truthy(stored_caller_name)
               THEN Response(200, "caller_name", stored_caller_name, <<>>)
               ELSE Response(404, "message", "Caller name not found or not looked up yet.", <<>>))]
  /\ pc' = [pc EXCEPT ![t] = "done"]
  /\ UNCHANGED <<clock, lookup_cache, stored_caller_name, solidarity_tech_api_key,
                 unit, put_at, boot>>

\* ------------------------------------- fetch_caller_name_with_cache

\* get_cached_name, lines 57-62: the SELECT and fetchone().
Select(t) ==
  /\ pc[t] = "select"
  /\ \E row \in FetchOne(lookup_cache, loc[t].fp) :
       /\ loc' = [loc EXCEPT ![t].row = row]
       /\ pc' = [pc EXCEPT ![t] = IF row = NoRow THEN "provider" ELSE "check"]
  /\ UNCHANGED <<clock, lookup_cache, stored_caller_name, solidarity_tech_api_key,
                 unit, put_at, boot>>

\* get_cached_name, lines 63-66, and line 85: a fresh row's name is returned,
\* and fetch_caller_name_with_cache returns it when it is truthy.
Check(t) ==
  /\ pc[t] = "check"
  /\ IF IsFresh(loc[t].row.timestamp, clock)
     THEN IF Truthy(loc[t].row.name)
          THEN /\ loc' = [loc EXCEPT ![t].caller_name = loc[t].row.name]
               /\ pc' = [pc EXCEPT ![t] = "fetched"]
          ELSE /\ loc' = loc
               /\ pc' = [pc EXCEPT ![t] = "provider"]
     ELSE /\ loc' = loc
          /\ pc' = [pc EXCEPT ![t] = "delete"]
  /\ UNCHANGED <<clock, lookup_cache, stored_caller_name, solidarity_tech_api_key,
                 unit, put_at, boot>>

\* get_cached_name, lines 68-70: the expired entry is removed.
Delete(t) ==
  /\ pc[t] = "delete"
  /\ lookup_cache' = DeleteRows(lookup_cache, loc[t].fp)
  /\ pc' = [pc EXCEPT ![t] = "provider"]
  /\ UNCHANGED <<clock, stored_caller_name, solidarity_tech_api_key,
                 loc, unit, put_at, boot>>

\* Mutant of AfterProvider: the answer is cached whatever it is.
AfterProvider_CacheAll(caller_name) == "put"

\* Lines 91-93: a truthy name is cached, any other is returned as it is.
AfterProvider(caller_name) == IF Truthy(caller_name) THEN "put" ELSE "fetched"

\* Mutant of Provider: after a first exception the fetch is tried again.
Provider_RetryOnce(t) ==
  /\ pc[t] = "provider"
  /\ \/ \E name \in ProviderNames \cup {"", None} :
          /\ loc' = [loc EXCEPT ![t].caller_name = name]
          /\ pc' = [pc EXCEPT ![t] = AfterProvider(name)]
     \/ \E e \in ProviderErrors :
          IF cur_fetch[t].calls = 0
          THEN /\ loc' = loc
               /\ pc' = [pc EXCEPT ![t] = "select"]
          ELSE /\ loc' = [loc EXCEPT ![t].error = e, ![t].failed = "provider"]
               /\ pc' = [pc EXCEPT ![t] = "fetched"]
  /\ UNCHANGED <<clock, lookup_cache, stored_caller_name, solidarity_tech_api_key,
                 unit, put_at, boot>>

\* Lines 87-91: the provider's answer, a name (possibly empty or absent) or
\* an exception.
Provider(t) ==
  /\ pc[t] = "provider"
  /\ \/ \E name \in ProviderNames \cup {"", None} :
          /\ loc' = [loc EXCEPT ![t].caller_name = name]
          /\ pc' = [pc EXCEPT ![t] = AfterProvider(name)]
     \/ \E e \in ProviderErrors :
          /\ loc' = [loc EXCEPT ![t].error = e, ![t].failed = "provider"]
          /\ pc' = [pc EXCEPT ![t] = "fetched"]
  /\ UNCHANGED <<clock, lookup_cache, stored_caller_name, solidarity_tech_api_key,
                 unit, put_at, boot>>

\* Line 92: cache_name(phone_number, caller_name).
Put(t) ==
  /\ pc[t] = "put"
  /\ lookup_cache' = cache_name(lookup_cache, loc[t].fp, loc[t].caller_name, clock)
  /\ pc' = [pc EXCEPT ![t] = "fetched"]
  /\ UNCHANGED <<clock, stored_caller_name, solidarity_tech_api_key,
                 loc, unit, put_at, boot>>

\* A statement on the SQLite connection raises (the SELECT, the DELETE or
\* the INSERT): the exception leaves fetch_caller_name_with_cache.
CacheFails(t) ==
  /\ pc[t] \in {"select", "delete", "put"}
  /\ loc' = [loc EXCEPT ![t].error = CacheError,
                        ![t].failed = IF pc[t] = "put" THEN "cache_write"
                                      ELSE "cache_read"]
  /\ pc' = [pc EXCEPT ![t] = "fetched"]
  /\ UNCHANGED <<clock, lookup_cache, stored_caller_name, solidarity_tech_api_key,
                 unit, put_at, boot>>

\* --------------------------------------- the handlers after the fetch

\* lookup_phone_number, lines 129-138.
LookupEnd(t) ==
  /\ pc[t] = "fetched"
  /\ loc[t].kind = "lookup"
  /\ IF loc[t].error = None
     THEN /\ stored_caller_name' = loc[t].caller_name
          /\ loc' = [loc EXCEPT ![t] = Respond(@,
               Response(200, "name",
                        IF Truthy(loc[t].caller_name) THEN loc[t].caller_name
                        ELSE NameNotFound, <<>>))]
     ELSE /\ stored_caller_name' = stored_caller_name
          /\ loc' = [loc EXCEPT ![t] = Respond(@,
               Response(500, "error", loc[t].error, <<>>))]
  /\ pc' = [pc EXCEPT ![t] = "done"]
  /\ UNCHANGED <<clock, lookup_cache, solidarity_tech_api_key, unit, put_at, boot>>

\* Mutant of VerifyEnd: verify_identity stores the name it resolved.
VerifyEnd_Stores(t) ==
  /\ pc[t] = "fetched"
  /\ loc[t].kind = "verify_identity"
  /\ loc' = [loc EXCEPT ![t] = Respond(@,
       IF loc[t].error = None
       THEN Response(200, "status",
                     VerifyStatus(loc[t].caller_name, loc[t].claimed_name), <<>>)
       ELSE Response(500, "error", loc[t].error, <<>>))]
  /\ stored_caller_name' =
       IF loc[t].error = None THEN loc[t].caller_name ELSE stored_caller_name
  /\ pc' = [pc EXCEPT ![t] = "done"]
  /\ UNCHANGED <<clock, lookup_cache, solidarity_tech_api_key,
                 unit, put_at, boot>>

\* verify_identity, lines 188-195.
VerifyEnd(t) ==
  /\ pc[t] = "fetched"
  /\ loc[t].kind = "verify_identity"
  /\ loc' = [loc EXCEPT ![t] = Respond(@,
       IF loc[t].error = None
       THEN Response(200, "status",
                     VerifyStatus(loc[t].caller_name, loc[t].claimed_name), <<>>)
       ELSE Response(500, "error", loc[t].error, <<>>))]
  /\ pc' = [pc EXCEPT ![t] = "done"]
  /\ UNCHANGED <<clock, lookup_cache, stored_caller_name, solidarity_tech_api_key,
                 unit, put_at, boot>>

\* Mutant of MoreRecords: a failed lookup ends the loop.
MoreRecords_StopOnError(l) == l.error = None /\ l.i < Len(l.user_data)

\* Line 220: the loop over user_data.items() has records left, whether the
\* lookup of this one failed (line 233, continue) or not.
MoreRecords(l) == l.i < Len(l.user_data)

\* verify_all_identities, lines 224-248: the result of one record is appended,
\* and the loop goes on to the next record or returns the results.
VerifyAllStep(t) ==
  /\ pc[t] = "fetched"
  /\ loc[t].kind = "verify_all_identities"
  /\ LET l == loc[t]
         result == IF l.error = None
                   THEN ResultOk(l.fp, l.claimed_name, l.caller_name)
                   ELSE ResultError(l.fp, l.claimed_name, l.error)
         m == [l EXCEPT !.results = Append(@, result),
                        !.outcomes = Append(@, [caller_name |-> l.caller_name,
                                                failed |-> l.failed,
                                                error |-> l.error])]
     IN  IF MoreRecords(l)
         THEN /\ loc' = [loc EXCEPT ![t] =
                   BeginFetch([m EXCEPT !.i = l.i + 1,
                                        !.claimed_name = l.user_data[l.i + 1].name],
                              l.user_data[l.i + 1].phone_number)]
              /\ pc' = [pc EXCEPT ![t] = "select"]
         ELSE /\ loc' = [loc EXCEPT ![t] =
                   Respond(m, Response(200, "results", None, m.results))]
              /\ pc' = [pc EXCEPT ![t] = "done"]
  /\ UNCHANGED <<clock, lookup_cache, stored_caller_name, solidarity_tech_api_key,
                 unit, put_at, boot>>

\* The response is sent; the thread is free for the next request.
Return(t) ==
  /\ pc[t] = "done"
  /\ pc' = [pc EXCEPT ![t] = "idle"]
  /\ loc' = [loc EXCEPT ![t] = IdleLoc]
  /\ UNCHANGED <<clock, lookup_cache, stored_caller_name, solidarity_tech_api_key,
                 unit, put_at, boot>>

\* Mutant of TableAtStart: the table is created anew at every start.
TableAtStart_Dropped(table) == {}

\* Lines 36-45 as a process starts: lookup_cache.db is opened where the run
\* before left it, and CREATE TABLE IF NOT EXISTS keeps the rows of a table
\* that is there.
TableAtStart(table) == table

\* The process stops and starts again: the requests in progress are lost, the
\* module's globals are what lines 30-52 make them, and the committed rows of
\* the database file are those it held.
Restart ==
  /\ boot.n < MaxRestarts
  /\ boot' = [n |-> boot.n + 1, table |-> lookup_cache]
  /\ lookup_cache' = TableAtStart(lookup_cache)
  /\ stored_caller_name' = None
  /\ pc' = [t \in Threads |-> "idle"]
  /\ loc' = [t \in Threads |-> IdleLoc]
  /\ UNCHANGED <<clock, solidarity_tech_api_key, unit, put_at>>

\* ---------------------------------------------------------- history

\* The fetch thread t has just ended.
ThisFetch(t) ==
  [phone_number |-> loc[t].fp,
   ret |-> IF loc[t].error = None THEN loc[t].caller_name ELSE None,
   failed |-> loc[t].failed,
   start |-> cur_fetch[t].start, check_at |-> cur_fetch[t].check_at,
   ts |-> cur_fetch[t].ts, calls |-> cur_fetch[t].calls]

\* The history of thread t's fetch over a step.
ObserveFetch(t) ==
  IF pc'[t] = "select" /\ pc[t] \in {"idle", "fetched"}
  THEN NewFetch(clock)
  ELSE IF pc[t] = "check" /\ pc'[t] # "check"
  THEN [cur_fetch[t] EXCEPT !.check_at = clock,
                            !.ts = IF pc'[t] = "fetched"
                                   THEN loc[t].row.timestamp ELSE @]
  ELSE IF pc[t] = "provider" /\ pc'[t] # "provider"
  THEN [cur_fetch[t] EXCEPT !.calls = @ + 1]
  ELSE IF pc[t] = "put" /\ pc'[t] = "fetched" /\ loc'[t].error = None
  THEN [cur_fetch[t] EXCEPT !.ts = IntTime(clock)]
  ELSE cur_fetch[t]

\* The history of a step: each thread's fetch, and the last fetch whose
\* result its handler has taken.
Observe ==
  /\ cur_fetch' = [t \in Threads |-> ObserveFetch(t)]
  /\ last_fetch' =
       IF \E t \in Threads : pc[t] = "fetched" /\ pc'[t] # "fetched"
       THEN ThisFetch(CHOOSE t \in Threads : pc[t] = "fetched" /\ pc'[t] # "fetched")
       ELSE last_fetch
  /\ UNCHANGED last_resolved

\* Thread t's fetch returns a non-empty name in this step.
Resolves(t) ==
  /\ pc[t] # "fetched" /\ pc'[t] = "fetched"
  /\ loc'[t].error = None
  /\ Truthy(loc'[t].caller_name)

\* The history of a step: the last non-empty name a fetch returned.
ObserveResolved ==
  /\ last_resolved' =
       IF \E t \in Threads : Resolves(t)
       THEN loc'[CHOOSE t \in Threads : Resolves(t)].caller_name
       ELSE last_resolved
  /\ UNCHANGED <<cur_fetch, last_fetch>>

\* ------------------------------------------------------ specifications

\* The requests of a step are for numbers of the directory (or for none).
DirectoryNumbers ==
  \A t \in Threads : loc'[t].phone_number # "+15550000000"

SpecCache == Init /\ [][NextCache /\ UNCHANGED hist]_vars

\* The server serving one request at a time.
NextSeq ==
  \/ Tick
  \/ \E t \in {"t1"} :
       \/ LookupStart(t) \/ VerifyStart(t) \/ VerifyAllStart(t) \/ GetCallerName(t)
       \/ Select(t) \/ Check(t) \/ Delete(t) \/ Provider(t) \/ Put(t)
       \/ LookupEnd(t) \/ VerifyEnd(t) \/ VerifyAllStep(t) \/ Return(t)

SpecSeq == Init /\ [][NextSeq /\ UNCHANGED hist]_vars

\* The server serving one request at a time, with the history of the names
\* its fetches returned.
SpecNames == Init /\ [][NextSeq /\ ObserveResolved]_vars

\* The server serving lookup requests one at a time, with the history of
\* its fetches.
NextResolve ==
  \/ Tick
  \/ \E t \in {"t1"} :
       \/ LookupStart(t)
       \/ Select(t) \/ Check(t) \/ Delete(t) \/ Provider(t) \/ Put(t)
       \/ LookupEnd(t) \/ Return(t)

SpecResolve == Init /\ [][NextResolve /\ DirectoryNumbers /\ Observe]_vars

\* The server serving lookup requests one at a time over restarts, with the
\* history of its fetches.
NextRestart == NextResolve \/ Restart

SpecRestart == Init /\ [][NextRestart /\ DirectoryNumbers /\ Observe]_vars

\* The server serving one request at a time, on a store whose statements may fail.
NextIO ==
  \/ NextSeq
  \/ \E t \in {"t1"} : CacheFails(t)

SpecIO == Init /\ [][NextIO /\ UNCHANGED hist]_vars

\* Two threads serving lookup requests concurrently.
NextConc ==
  \/ Tick
  \/ \E t \in Threads :
       \/ LookupStart(t)
       \/ Select(t) \/ Check(t) \/ Delete(t) \/ Provider(t) \/ Put(t)
       \/ LookupEnd(t) \/ Return(t)

SpecConc == Init /\ [][NextConc /\ DirectoryNumbers /\ UNCHANGED hist]_vars

\* Two threads serving lookup requests concurrently within one tick of the
\* clock (so within one TTL), with the history of their fetches.
NextOverlap ==
  \E t \in Threads :
    \/ LookupStart(t)
    \/ Select(t) \/ Check(t) \/ Delete(t) \/ Provider(t) \/ Put(t)
    \/ LookupEnd(t) \/ Return(t)

SpecOverlap == Init /\ [][NextOverlap /\ DirectoryNumbers /\ Observe]_vars

\* --------------------------------------------------------------- claims

TTLTicks == CACHE_TTL_SECONDS * TicksPerSec

Verified == "Identity Verified"
Invalid == "Identity Invalid"
LookupError == "Twilio Lookup Error"

\* Thread t's fetch has ended, and the fetch before it was for the same number.
SecondFetch(t) ==
  pc[t] = "fetched" /\ last_fetch.phone_number = loc[t].fp

C2_FreshnessAsClaimed ==
  (unit.op = "get" /\ unit.written >= 0)
    => IF unit.at - unit.written < TTLTicks
       THEN \E r \in SelectRows(unit.before, unit.phone_number) : unit.ret = r.name
       ELSE unit.ret = None

\* C3: a fetch whose provider call returned an empty or absent name leaves no
\* row for the number, and the next fetch for the number calls the provider.
C3_NoNegativeCaching ==
  \A t \in Threads :
    /\ (/\ pc[t] = "fetched"
        /\ cur_fetch[t].calls = 1
        /\ loc[t].error = None
        /\ ~Truthy(loc[t].caller_name))
         => SelectRows(lookup_cache, loc[t].fp) = {}
    /\ (/\ SecondFetch(t)
        /\ last_fetch.calls = 1
        /\ last_fetch.failed = None
        /\ ~Truthy(last_fetch.ret))
         => cur_fetch[t].calls = 1

\* C3's case: the provider gave no name, and the next fetch for the number
\* called it again and got one.
C3_Witness ==
  \E t \in Threads :
    /\ SecondFetch(t)
    /\ last_fetch.calls = 1 /\ last_fetch.failed = None /\ ~Truthy(last_fetch.ret)
    /\ cur_fetch[t].calls = 1 /\ Truthy(loc[t].caller_name)

\* C4: a verify_identity whose resolution did not fail is for a number of the
\* directory and answers Verified when the resolved name is non-empty and
\* equal, character for character, to the claimed name, and Invalid otherwise.
C4_ExactMatch ==
  \A t \in Threads :
    (/\ pc[t] = "done"
     /\ loc[t].kind = "verify_identity"
     /\ loc[t].fp # None
     /\ loc[t].error = None)
      => /\ HasKey(loc[t].user_data, loc[t].phone_number)
         /\ loc[t].response.code = 200
         /\ loc[t].response.key = "status"
         /\ loc[t].response.text =
              IF /\ loc[t].caller_name # None
                 /\ loc[t].caller_name # ""
                 /\ loc[t].caller_name = loc[t].claimed_name
              THEN Verified ELSE Invalid

\* C4's case: the resolved name differs from the claimed one by case only.
C4_Witness ==
  \E t \in Threads :
    /\ pc[t] = "done"
    /\ loc[t].kind = "verify_identity"
    /\ loc[t].claimed_name = "John Doe"
    /\ loc[t].caller_name = "john doe"
    /\ loc[t].response.text = Invalid

\* Thread t has answered a verify_all_identities whose directory was loaded.
VerifyAllDone(t) ==
  /\ pc[t] = "done"
  /\ loc[t].kind = "verify_all_identities"
  /\ loc[t].directory = "ok"

\* C5: verify_all_identities answers with one result per record of user_data
\* whatever lookups failed; the result of a record whose lookup failed is a
\* lookup error with the exception's text, and the result of any other record
\* is Verified or Invalid by its own claimed and resolved names.
C5_PartialFailureIsolation ==
  \A t \in Threads :
    VerifyAllDone(t)
      => /\ loc[t].response.code = 200
         /\ Len(loc[t].response.results) = Len(loc[t].user_data)
         /\ Len(loc[t].outcomes) = Len(loc[t].user_data)
         /\ \A i \in 1..Len(loc[t].user_data) :
              LET r == loc[t].response.results[i]
                  o == loc[t].outcomes[i]
                  d == loc[t].user_data[i]
              IN  IF o.failed # None
                  THEN /\ r.status = LookupError
                       /\ r.error = o.error
                       /\ r.error \in ProviderErrors
                  ELSE /\ r.error = None
                       /\ r.status =
                            IF /\ o.caller_name # None
                               /\ o.caller_name # ""
                               /\ o.caller_name = d.name
                            THEN Verified ELSE Invalid

\* C5's case: the first record's lookup failed and the second was verified.
C5_Witness ==
  \E t \in Threads :
    /\ VerifyAllDone(t)
    /\ Len(loc[t].response.results) = 2
    /\ loc[t].response.results[1].status = LookupError
    /\ loc[t].response.results[2].status = Verified

\* C6, as claimed: verify_all_identities answers with one result per record
\* of the list the directory returned, in its order, the i-th result carrying
\* the i-th record's phone number and claimed name.
C6_OneResultPerRecordAsClaimed ==
  \A t \in Threads :
    VerifyAllDone(t)
      => /\ Len(loc[t].response.results) = Len(loc[t].users)
         /\ \A i \in 1..Len(loc[t].users) :
              /\ loc[t].response.results[i].phone_number = loc[t].users[i].phone_number
              /\ loc[t].response.results[i].claimed_name = loc[t].users[i].name

\* C7: the table never holds two rows for one phone number, and after
\* cache_name(p, B), whatever row p had before, p has exactly one row, with
\* name B and the timestamp of this call.
C7_UpsertOverwrite ==
  /\ \A p \in Phones : Cardinality(SelectRows(lookup_cache, p)) <= 1
  /\ unit.op = "put"
       => SelectRows(lookup_cache, unit.phone_number) =
            {[phone_number |-> unit.phone_number, name |-> unit.name,
              timestamp |-> unit.at \div TicksPerSec]}

\* C7's case: cache_name(p, A), then cache_name(p, B) with another name in a
\* later second.
C7_Witness ==
  /\ unit.op = "put"
  /\ unit.written >= 0
  /\ \E r \in SelectRows(unit.before, unit.phone_number) :
       r.name # unit.name /\ r.timestamp # unit.at \div TicksPerSec

\* C8, as claimed: no step loses a written entry; a row leaves the table only
\* when a put replaces it or when it is stale.
C8_PutNotLostAsClaimed ==
  [][\A r \in lookup_cache \ lookup_cache' :
       \/ \E n \in lookup_cache' : n.phone_number = r.phone_number
       \/ clock - r.timestamp * TicksPerSec >= TTLTicks]_vars

\* C9, as claimed: a failure of the cache's read is not the error a fetch
\* ends with, and no response reports a failure of the cache.
C9_CacheFailureDegradesAsClaimed ==
  \A t \in Threads :
    /\ (pc[t] = "fetched" /\ loc[t].failed = "cache_read") => loc[t].error = None
    /\ pc[t] = "done"
         => /\ loc[t].response.text # CacheError
            /\ \A i \in 1..Len(loc[t].response.results) :
                 loc[t].response.results[i].error # CacheError

\* Thread t has taken a verify_identity for a number while the directory is
\* down or does not hold the number.
VerifyOfAbsent(t) ==
  /\ loc[t].kind = "verify_identity"
  /\ Truthy(loc[t].phone_number)
  /\ \/ loc[t].directory = "down"
     \/ /\ loc[t].directory = "ok"
        /\ ~HasKey(loc[t].user_data, loc[t].phone_number)

\* C10: a verify_identity for a number the directory does not hold, or with
\* the directory down, is answered in the step that takes it, with an error
\* that is neither Verified nor Invalid, the fetch not called (so no provider
\* call) and the table as it was.
C10_AbsentIsAnError ==
  [][\A t \in Threads :
       (pc[t] = "idle" /\ VerifyOfAbsent(t)')
         => /\ pc'[t] = "done"
            /\ loc'[t].fp = None
            /\ loc'[t].response.code \in {404, 500}
            /\ loc'[t].response.key = "error"
            /\ loc'[t].response.text \notin {Verified, Invalid}
            /\ lookup_cache' = lookup_cache]_vars

\* C10's case: a verify_identity for a number that is not in the directory
\* has been answered.
C10_Witness ==
  \E t \in Threads :
    /\ pc[t] = "done"
    /\ VerifyOfAbsent(t)
    /\ loc[t].directory = "ok"
    /\ loc[t].response.code = 404

\* C11: a lookup or verify_identity request with no phone number, or an empty
\* one, is answered in the step that takes it with the validation error 400;
\* no fetch begins (so no provider call), and the table and the stored name
\* are as they were.
C11_RejectedWithoutEffect ==
  [][\A t \in Threads :
       (/\ pc[t] = "idle"
        /\ loc'[t].kind \in {"lookup", "verify_identity"}
        /\ loc'[t].phone_number \in {"", None})
         => /\ pc'[t] = "done"
            /\ loc'[t].fp = None
            /\ loc'[t].response.code = 400
            /\ loc'[t].response.key = "error"
            /\ lookup_cache' = lookup_cache
            /\ stored_caller_name' = stored_caller_name]_vars

\* C11's case: a lookup with an empty phone number has been rejected while
\* the table and the stored name hold something.
C11_Witness ==
  \E t \in Threads :
    /\ pc[t] = "done"
    /\ loc[t].kind = "lookup"
    /\ loc[t].phone_number = ""
    /\ loc[t].response.code = 400
    /\ stored_caller_name # None
    /\ lookup_cache # {}

\* C12: a row the run before a restart left in the table, and still fresh
\* (by its timestamp) when a fetch for its number ends after the restart, is
\* still in the table, and that fetch returned its name without a provider call.
C12_SurvivesRestart ==
  \A t \in Threads : \A r \in boot.table :
    (/\ boot.n > 0
     /\ pc[t] = "fetched"
     /\ r.phone_number = loc[t].fp
     /\ clock - r.timestamp * TicksPerSec < TTLTicks)
      => /\ r \in lookup_cache
         /\ cur_fetch[t].calls = 0
         /\ loc[t].error = None
         /\ loc[t].caller_name = r.name

\* C12's case: a row cache_name wrote in the first run answered a fetch of the
\* second run.
C12_Witness ==
  \E t \in Threads : \E r \in boot.table :
    /\ boot.n > 0
    /\ pc[t] = "fetched"
    /\ r.phone_number = loc[t].fp
    /\ r.timestamp >= 0
    /\ cur_fetch[t].calls = 0
    /\ loc[t].caller_name = r.name

\* C13, as claimed: once a fetch has returned a non-empty name, whichever
\* handler called it, get_caller_name answers 200 with the last such name.
C13_MostRecentNameAsClaimed ==
  \A t \in Threads :
    (/\ pc[t] = "done"
     /\ loc[t].kind = "get_caller_name"
     /\ last_resolved # None)
      => /\ loc[t].response.code = 200
         /\ loc[t].response.text = last_resolved

\* C14: when get_cached_name(p) finds a row for p whose age (the time of the
\* call less its timestamp) is at least the TTL, it returns None and the table
\* it leaves is the table it found less p's rows; when p's row is fresh or p
\* has none, the table it leaves is the table it found.
C14_EagerEviction ==
  unit.op = "get"
    => IF \E r \in unit.before :
            /\ r.phone_number = unit.phone_number
            /\ unit.at - r.timestamp * TicksPerSec >= TTLTicks
       THEN /\ unit.ret = None
            /\ \A r \in lookup_cache : r.phone_number # unit.phone_number
            /\ lookup_cache = {r \in unit.before : r.phone_number # unit.phone_number}
       ELSE lookup_cache = unit.before

\* C14's case: get_cached_name evicted the expired row cache_name had written
\* and left the row of another number.
C14_Witness ==
  /\ unit.op = "get"
  /\ unit.written >= 0
  /\ unit.ret = None
  /\ lookup_cache # {}
  /\ lookup_cache # unit.before

\* Thread t's fetch is about to write the table: it missed the cache (no row,
\* or a row that is stale) and the provider answered with a non-empty name.
WritesAfterMiss(t) ==
  /\ pc[t] = "put"
  /\ loc[t].caller_name \in ProviderNames
  /\ loc[t].caller_name # ""
  /\ \/ loc[t].row = NoRow
     \/ clock - loc[t].row.timestamp * TicksPerSec >= TTLTicks

\* C15: every row of the table holds a non-empty name of the provider's and a
\* timestamp that is not in the future; a thread is at its write only after a
\* miss and a non-empty answer of the provider for its number; and a step
\* that creates or overwrites a row is such a write, the row holding the
\* number of the fetch, the provider's name and the second of the write.
C15_CacheContent ==
  /\ [](/\ \A r \in lookup_cache :
             /\ r.name \in ProviderNames
             /\ r.name # ""
             /\ r.timestamp <= clock \div TicksPerSec
        /\ \A t \in Threads : pc[t] = "put" => WritesAfterMiss(t))
  /\ [][\A r \in lookup_cache' \ lookup_cache :
          \E t \in Threads :
            /\ WritesAfterMiss(t)
            /\ pc'[t] = "fetched"
            /\ r = [phone_number |-> loc[t].fp, name |-> loc[t].caller_name,
                    timestamp |-> clock \div TicksPerSec]]_vars

\* C15's case: a fetch of verify_all_identities has overwritten the stale row
\* of a number with the provider's new name.
C15_Witness ==
  \E t \in Threads : \E r \in lookup_cache :
    /\ pc[t] = "fetched"
    /\ loc[t].kind = "verify_all_identities"
    /\ loc[t].row # NoRow
    /\ r.phone_number = loc[t].fp
    /\ r.name = loc[t].caller_name
    /\ r.name # loc[t].row.name
    /\ r.timestamp > loc[t].row.timestamp

\* Thread t is inside fetch_caller_name_with_cache.
InFetch(t) == pc[t] \in {"select", "check", "delete", "provider", "put"}

\* C16: a fetch whose provider call raised has made exactly one provider call,
\* ends with the exception's text as its error and with no row for its number
\* in the table, and the lookup that made it answers 500 with that text; the
\* step in which the call raises leaves the table as it was, and no step of
\* a fetch changes the rows of another number.
C16_NoRetry ==
  /\ [](\A t \in Threads :
          /\ (pc[t] = "fetched" /\ loc[t].failed = "provider")
               => /\ cur_fetch[t].calls = 1
                  /\ loc[t].error \in ProviderErrors
                  /\ \A r \in lookup_cache : r.phone_number # loc[t].fp
          /\ (pc[t] = "done" /\ loc[t].failed = "provider")
               => /\ loc[t].response.code = 500
                  /\ loc[t].response.key = "error"
                  /\ loc[t].response.text = loc[t].error)
  /\ [][\A t \in Threads :
          /\ (pc[t] = "provider" /\ loc'[t].failed = "provider")
               => lookup_cache' = lookup_cache
          /\ (InFetch(t) /\ pc'[t] # pc[t])
               => \A r \in (lookup_cache \ lookup_cache') \cup (lookup_cache' \ lookup_cache) :
                    r.phone_number = loc[t].fp]_vars

\* C16's case: a lookup whose provider call raised has answered 500 while the
\* table holds the row of another number.
C16_Witness ==
  \E t \in Threads :
    /\ pc[t] = "done"
    /\ loc[t].failed = "provider"
    /\ loc[t].response.code = 500
    /\ last_fetch.calls = 1
    /\ last_fetch.failed = "provider"
    /\ lookup_cache # {}

\* C17: with two threads interleaved in every way, the row a fetch for p has
\* read is a row of p, and a step that removes, creates or changes a row of
\* the table is the DELETE or the INSERT of a thread whose fetch is for that
\* row's number: the rows of every other number are as they were.
C17_Independent ==
  /\ [](\A t \in Threads :
          (InFetch(t) /\ loc[t].row # NoRow) => loc[t].row.phone_number = loc[t].fp)
  /\ [][\A r \in (lookup_cache \ lookup_cache') \cup (lookup_cache' \ lookup_cache) :
          \E t \in Threads :
            /\ pc[t] \in {"delete", "put"}
            /\ pc'[t] # pc[t]
            /\ loc[t].fp = r.phone_number]_vars

\* C17's case: a thread has evicted the stale row of its number while the
\* row another thread wrote for another number is in the table.
C17_Witness ==
  \E t \in Threads : \E u \in Threads :
    /\ pc[t] = "provider"
    /\ loc[t].row # NoRow
    /\ pc[u] = "fetched"
    /\ loc[u].fp # loc[t].fp
    /\ \E r \in lookup_cache :
         r.phone_number = loc[u].fp /\ r.name = loc[u].caller_name

\* Thread t is inside a fetch, or at its end, and every provider call the
\* fetch has made returned a non-empty name.
FetchWithName(t) ==
  /\ InFetch(t) \/ pc[t] = "fetched"
  /\ loc[t].failed = None
  /\ cur_fetch[t].calls > 0 => Truthy(loc[t].caller_name)

\* C18, as claimed: two fetches for one number that are in progress together
\* (all within one tick, so within one TTL), the provider returning non-empty
\* names, have made at most one provider call between them.
C18_OneCallAsClaimed ==
  \A t \in Threads : \A u \in Threads \ {t} :
    (/\ FetchWithName(t)
     /\ FetchWithName(u)
     /\ loc[t].fp = loc[u].fp)
      => cur_fetch[t].calls + cur_fetch[u].calls <= 1

\* Thread t's lookup takes the result of a fetch that did not fail.
LookupCompletes(t) ==
  /\ loc[t].kind = "lookup"
  /\ pc[t] = "fetched"
  /\ pc'[t] = "done"
  /\ loc[t].error = None

\* C19: a step in which a lookup takes the result of a fetch that did not
\* fail sets stored_caller_name to that result, a name or None; every other
\* step (of verify_identity, of verify_all_identities, of get_caller_name, a
\* rejected request, a lookup whose fetch failed) leaves it as it was.
C19_StoredNameFrame ==
  [][/\ \A t \in Threads :
          LookupCompletes(t) => stored_caller_name' = loc[t].caller_name
     /\ (\A t \in Threads : ~LookupCompletes(t))
          => stored_caller_name' = stored_caller_name]_vars

\* C19's case: a verify_identity has resolved a name and answered, and the
\* stored name is still the other name an earlier lookup stored.
C19_Witness ==
  \E t \in Threads :
    /\ pc[t] = "done"
    /\ loc[t].kind = "verify_identity"
    /\ loc[t].response.code = 200
    /\ Truthy(loc[t].caller_name)
    /\ Truthy(stored_caller_name)
    /\ stored_caller_name # loc[t].caller_name

\* verify_identity, lines 179-195, for a number whose record holds
\* claimed_name and whose fetch has outcome o: the 404 without a fetch, the
\* 500 of a failed fetch (a lookup error), or the status of line 192.
VerifyOneReports(claimed_name, o) ==
  IF ~Truthy(claimed_name) THEN "Phone number not found in database"
  ELSE IF o.failed # None THEN LookupError
  ELSE VerifyStatus(o.caller_name, claimed_name)

\* C20, as claimed: the status verify_all_identities reports for a record,
\* its claimed name empty or not, is what verify_identity reports for the
\* record's number with the same cache and the same answer of the provider.
C20_AllAgreesWithOneAsClaimed ==
  \A t \in Threads :
    VerifyAllDone(t)
      => \A i \in 1..Len(loc[t].results) :
           loc[t].results[i].status =
             VerifyOneReports(loc[t].user_data[i].name, loc[t].outcomes[i])
====
